---- MODULE Spec2Model ----
(***************************************************************************)
(* A model of pdfexpy: the backend loader (models/model_loader.py), the    *)
(* GUI load pass (gui/main_window.py), the YOLO detection wrapper          *)
(* (models/yolo_model.py) and the analysis pipeline                        *)
(* (utils/image_analysis.py).                                              *)
(*                                                                         *)
(* Conventions.  A Python Optional is a sequence of length at most one:    *)
(* None is <<>> and a value v is <<v>>.  A text is a sequence of tokens,   *)
(* the empty text "" being <<>>; f"prefix: {e}" is the prefix token        *)
(* followed by the tokens of e.                                            *)
(***************************************************************************)
EXTENDS Integers, Sequences, FiniteSets, TLC

VARIABLES
    \* ---- the process and its ModelLoader ----
    TF_AVAILABLE,        \* model_loader.py:11-15, fixed at import time
    TESSERACT_AVAILABLE, \* model_loader.py:17-21, fixed at import time
    loader,              \* "none", or who constructed the ModelLoader: "gui", "cli", "api"
    enabled,             \* config["models"][name]["enabled"] of the loader
    models,              \* keys of ModelLoader.models
    model_status,        \* ModelLoader.model_status
    clock,               \* time.time()
    importAttempts,      \* backends whose dynamic import / probe was attempted
    \* ---- the callers (threads) of the loader ----
    pc,                  \* "idle", "pass", "done"
    call,                \* the operation a thread runs and its arguments
    todo,                \* names of the pass still to be dispatched
    inflight,            \* loads begun and not yet finished: pairs <<name, start_time>>
    dispatched,          \* names handed to a load function by this pass, in order
    recorded,            \* names whose outcome this pass wrote to model_status, in order
    results,             \* the pass's results dict: name -> result of the load call
    ret,                 \* what the operation returned (Optional)
    \* ---- the analysis pipeline (utils/image_analysis.py) ----
    PIL_AVAILABLE,       \* image_analysis.py:13-17, fixed at import time
    YOLO_AVAILABLE,      \* yolo_model.py:10-14, fixed at import time
    now,                 \* datetime.datetime.now(), in seconds
    fs_reports,          \* the report files on disk: path -> document written
    fs_artifacts,        \* the visual feedback files on disk (paths)
    apc,                 \* where analyze_image is: "idle", "detect", "persist", "render", "done", "raised"
    aargs,               \* the arguments of the running analyze_image call
    image_details,       \* Optional: what get_image_details returned
    detection,           \* Optional: what YOLOModel.detect returned to analyze_image
    full_results,        \* Optional: the report built by analyze_image
    result_file,         \* Optional: the path of the report of this run
    timestamp,           \* Optional: the timestamp in the file names of this run
    aresult,             \* Optional: what analyze_image returned
    afault,              \* what the environment made fail in this run
    dfault,              \* what the environment made fail in the detection of this run
    written,             \* the files written by this run
    runs,                \* number of analyze_image calls begun so far
    \* ---- a YOLOModel object used directly ----
    yolo_is_loaded,      \* YOLOModel.is_loaded
    yolo_out,            \* Optional: what the last detect call returned
    yolo_fault,          \* what the environment made fail in the last detect call
    yolo_events,         \* the calls the last detect call made: load, inference
    \* ---- a reader of the status map (MainWindow.update_model_status) ----
    toread,              \* the backends update_model_status has still to show
    held,                \* Optional: the backend whose record the reader holds, and the record
    observed,            \* Optional: the fields the reader got from the record it holds
    \* ---- the functions of image_analysis.py called on their own ----
    fin,                 \* the function called and its arguments
    fprev,               \* Optional: an earlier call of it, with what it returned
    fout                 \* Optional: what the call returned

loaderVars == <<TF_AVAILABLE, TESSERACT_AVAILABLE, loader, enabled, models,
                model_status, clock, importAttempts>>
threadVars == <<pc, call, todo, inflight, dispatched, recorded, results, ret>>
analysisVars == <<PIL_AVAILABLE, YOLO_AVAILABLE, now, fs_reports, fs_artifacts, apc,
                  aargs, image_details, detection, full_results, result_file,
                  timestamp, aresult, afault, dfault, written, runs>>
yoloVars == <<yolo_is_loaded, yolo_out, yolo_fault, yolo_events>>
readerVars == <<toread, held, observed>>
pureVars == <<fin, fprev, fout>>
vars == <<loaderVars, threadVars, analysisVars, yoloVars, readerVars, pureVars>>

-----------------------------------------------------------------------------
\* Bounds of the model.
MaxClock == 1

Threads == {"t1", "t2"}

None == <<>>
Some(v) == <<v>>

\* model_loader.py:328
available_models == <<"mobilenet", "cocossd", "tesseract">>
Names == {available_models[i] : i \in 1..Len(available_models)}
UnknownName == "resnet"

\* Messages str(e) of exceptions raised by the libraries: possibly empty
\* (str(MemoryError()) and the str of a bare failed assert are "").
ExcTexts == {<<>>, <<"boom">>}

MsgNoTF == <<"TensorFlow/TensorFlow.js not installed">>
MsgNoTesseract == <<"pytesseract not installed">>
MsgDisabled == <<"model is disabled">>
MsgUnknown == <<"unknown model name">>
MsgSkipped == <<"skipped in headless mode">>

ImportPrefix(name) ==
    IF name = "mobilenet" THEN "cannot import MobileNet model: "
    ELSE IF name = "cocossd" THEN "cannot import COCO-SSD model: "
    ELSE "cannot get Tesseract version/languages: "

\* What the environment does to the body of a load: nothing ("ok"), an
\* ImportError or another Exception, each with a message.
EnvOutcomes ==
    {[kind |-> "ok", msg |-> <<>>], [kind |-> "ImportError", msg |-> <<"no module">>]}
    \cup [kind : {"Exception"}, msg : ExcTexts]

\* ModelLoader.__init__
InitStatus == [n \in Names |-> [loaded |-> FALSE, error |-> None, time |-> None]]

\* The keys of a request that name a backend.
IsKnown(n) == n \in Names

\* A request to load_models: None (all backends) or a list of names.
MaxReq == 2
RECURSIVE SeqsUpTo(_, _)
SeqsUpTo(S, k) ==
    IF k = 0 THEN {<<>>}
    ELSE LET shorter == SeqsUpTo(S, k - 1)
         IN shorter \cup {Append(q, x) : q \in shorter, x \in S}
Requests == {None} \cup {Some(q) : q \in SeqsUpTo(Names \cup {UnknownName}, MaxReq)}

\* No function of image_analysis.py is called on its own.
NoInput == [fn |-> "none"]

NoCall == [op |-> "none", name |-> "", force |-> FALSE, headless |-> FALSE,
           mock |-> FALSE, req |-> None]

\* The dict a load function returns; absent keys are None.
Result(success, error, elapsed, message) ==
    [success |-> success, error |-> error, elapsed |-> elapsed, message |-> message]

\* dict assignment d[k] = v
Put(d, k, v) == [x \in DOMAIN d \cup {k} |-> IF x = k THEN v ELSE d[x]]
EmptyDict == [x \in {} |-> None]

-----------------------------------------------------------------------------
\* An exception: its class and its str().
Exc(type, msg) == [type |-> type, msg |-> msg]

\* The body of load_<name>_model inside its try: block, given what the
\* environment does.  Yields what is raised to the outer handler (None when
\* the body completes) and whether the dynamic import / probe was attempted.
LoadBody(name, env) ==
    IF name \in {"mobilenet", "cocossd"} /\ ~TF_AVAILABLE
    THEN [raised |-> Some(Exc("ModelLoadError", MsgNoTF)), tried |-> FALSE]
    ELSE IF name = "tesseract" /\ ~TESSERACT_AVAILABLE
    THEN [raised |-> Some(Exc("ModelLoadError", MsgNoTesseract)), tried |-> FALSE]
    ELSE IF env.kind = "ok"
    THEN [raised |-> None, tried |-> TRUE]
    ELSE IF name = "tesseract" \/ env.kind = "ImportError"
    \* except ImportError (mobilenet, cocossd) / except Exception (tesseract):
    \* re-raised as ModelLoadError(f"<prefix>: {e}")
    THEN [raised |-> Some(Exc("ModelLoadError", <<ImportPrefix(name)>> \o env.msg)),
          tried |-> TRUE]
    \* any other exception of mobilenet / cocossd reaches the outer handler as is
    ELSE [raised |-> Some(Exc(env.kind, env.msg)), tried |-> TRUE]

\* The outer handler of a load function, `except Exception as e:`, catches
\* every exception class the body raises.
OuterCatches(type) == type \in {"ModelLoadError", "ImportError", "Exception"}

\* elapsed = time.time() - start_time
Elapsed(start_time) == clock - start_time

\* The status record written by a load that ran its body.
LoadStatus(body, elapsed) ==
    IF body.raised = None
    THEN [loaded |-> TRUE, error |-> None, time |-> Some(elapsed)]
    ELSE [loaded |-> FALSE, error |-> Some(body.raised[1].msg), time |-> Some(elapsed)]

\* A recording that would write the record to every backend.
RecordOutcome_WholeMap(n, rec) == [m \in Names |-> rec]

\* A recording that would start from the initial map instead of the current one.
RecordOutcome_Reset(n, rec) == [InitStatus EXCEPT ![n] = rec]

\* self.model_status[model_name] = {...}: one key of the map is rebound.
RecordOutcome(n, rec) == [model_status EXCEPT ![n] = rec]

\* The dict returned by a load that ran its body.
LoadResult(body, elapsed) ==
    IF body.raised = None
    THEN Result(TRUE, None, Some(elapsed), <<"load completed">>)
    ELSE Result(FALSE, Some(body.raised[1].msg), Some(elapsed),
                <<"load failed: ">> \o body.raised[1].msg)

DisabledResult == Result(FALSE, None, None, MsgDisabled)
UnknownResult == Result(FALSE, Some(MsgUnknown), None, <<"model not recognised">>)
SkippedResult == Result(TRUE, None, None, MsgSkipped)

\* An aggregate that one success would satisfy.
AllSuccess_Any(res) == \E k \in DOMAIN res : res[k].success

\* all(result.get("success", False) for result in results.values())
AllSuccess(res) == \A k \in DOMAIN res : res[k].success

\* What an operation returns once its pass has handled every name.
ReturnValue(c, res) ==
    IF c.op = "test_model_loading" /\ c.name = "all"
    THEN [kind |-> "aggregate", success |-> Some(AllSuccess(res)), models |-> res]
    ELSE IF c.op = "test_model_loading"
    THEN [kind |-> "single", success |-> Some(res[c.name].success), models |-> res]
    ELSE [kind |-> "results", success |-> None, models |-> res]

-----------------------------------------------------------------------------
\* The state of the loader and of its callers when the process starts.
LoaderStart ==
    /\ loader = "none"
    /\ enabled = [n \in Names |-> TRUE]
    /\ models = {}
    /\ model_status = InitStatus
    /\ clock = 0
    /\ importAttempts = {}
    /\ pc = [t \in Threads |-> "idle"]
    /\ call = [t \in Threads |-> NoCall]
    /\ todo = [t \in Threads |-> <<>>]
    /\ inflight = [t \in Threads |-> {}]
    /\ dispatched = [t \in Threads |-> <<>>]
    /\ recorded = [t \in Threads |-> <<>>]
    /\ results = [t \in Threads |-> EmptyDict]
    /\ ret = [t \in Threads |-> None]

\* The state of the pipeline when the process starts: nothing on disk.
AnalysisStart ==
    /\ now = 0
    /\ fs_reports = EmptyDict
    /\ fs_artifacts = {}
    /\ apc = "idle"
    /\ aargs = None
    /\ image_details = None
    /\ detection = None
    /\ full_results = None
    /\ result_file = None
    /\ timestamp = None
    /\ aresult = None
    /\ afault = "none"
    /\ dfault = "none"
    /\ written = {}
    /\ runs = 0
    /\ yolo_is_loaded = FALSE
    /\ yolo_out = None
    /\ yolo_fault = "none"
    /\ yolo_events = <<>>
    /\ toread = <<>>
    /\ held = None
    /\ observed = None
    /\ fprev = None
    /\ fout = None

InitLoader ==
    /\ TF_AVAILABLE \in BOOLEAN
    /\ TESSERACT_AVAILABLE \in BOOLEAN
    /\ PIL_AVAILABLE = TRUE
    /\ YOLO_AVAILABLE = TRUE
    /\ LoaderStart
    /\ AnalysisStart
    /\ fin = NoInput

\* ModelLoader(config), by the GUI (MainWindow.init_model_loader) or by a
\* program that uses the class directly.
ModelLoaderInit(who, en) ==
    /\ loader = "none"
    /\ \A t \in Threads : pc[t] = "idle"
    /\ loader' = who
    /\ enabled' = en
    /\ models' = {}
    /\ model_status' = InitStatus
    /\ UNCHANGED <<TF_AVAILABLE, TESSERACT_AVAILABLE, clock, importAttempts, threadVars>>
    /\ UNCHANGED <<analysisVars, yoloVars, readerVars, pureVars>>

\* The start of an operation on thread t: the pass over the names `names`.
BeginPass(t, c, names) ==
    /\ pc' = [pc EXCEPT ![t] = IF names = <<>> THEN "done" ELSE "pass"]
    /\ call' = [call EXCEPT ![t] = c]
    /\ todo' = [todo EXCEPT ![t] = names]
    /\ dispatched' = [dispatched EXCEPT ![t] = <<>>]
    /\ recorded' = [recorded EXCEPT ![t] = <<>>]
    /\ results' = [results EXCEPT ![t] = EmptyDict]
    /\ ret' = [ret EXCEPT ![t] =
                 IF names = <<>> THEN Some(ReturnValue(c, EmptyDict)) ELSE None]
    /\ UNCHANGED inflight

\* ModelLoader.load_models(models_to_load), called once by the program that
\* owns the loader.  A sequence of calls on one thread acts on the loader as
\* one call with the concatenated list does, so one call of up to MaxReq names
\* stands for them.
LoadModels(t, req) ==
    /\ loader = "api"
    /\ t = "t1"
    /\ pc[t] = "idle"
    /\ BeginPass(t, [NoCall EXCEPT !.op = "load_models", !.req = req],
                 IF req = None THEN available_models ELSE req[1])
    /\ UNCHANGED loaderVars
    /\ UNCHANGED <<analysisVars, yoloVars, readerVars, pureVars>>

\* update_model_status is between two records, or not running.
ReaderIdle == toread = <<>> /\ (held = None \/ observed # None)

\* MainWindow.load_models: starts a worker thread that runs load_models_thread.
\* The click is handled by the main thread, between two of its handlers.
GuiLoadModels(t) ==
    /\ loader = "gui"
    /\ pc[t] = "idle"
    /\ ReaderIdle
    /\ BeginPass(t, [NoCall EXCEPT !.op = "gui_load"],
                 <<"mobilenet", "cocossd", "tesseract">>)
    /\ UNCHANGED loaderVars
    /\ UNCHANGED <<analysisVars, yoloVars, readerVars, pureVars>>

\* An operation on thread t that returns r without running a pass.
ReturnAtOnce(t, c, r) ==
    /\ pc' = [pc EXCEPT ![t] = "done"]
    /\ call' = [call EXCEPT ![t] = c]
    /\ ret' = [ret EXCEPT ![t] = Some(r)]
    /\ UNCHANGED <<todo, inflight, dispatched, recorded, results>>

\* A skip that would be taken with the force flag set.
SkipsInHeadless_ForceInverted(headless, mock, force) == headless /\ mock /\ force

\* The headless short cut of test_model_loading.
SkipsInHeadless(headless, mock, force) == headless /\ mock /\ ~force

\* test_model_loading(model_name, force_load, config): the entry point of the
\* command line, run once on the main thread of a process without a loader.
TestModelLoading(t, name, force, headless, mock, en) ==
    /\ loader = "none"
    /\ t = "t1"
    /\ pc[t] = "idle"
    /\ LET c == [NoCall EXCEPT !.op = "test_model_loading", !.name = name,
                               !.force = force, !.headless = headless, !.mock = mock]
       IN IF name \notin Names \cup {"all"}
          THEN /\ ReturnAtOnce(t, c, [kind |-> "unknown", success |-> Some(FALSE),
                                      models |-> EmptyDict])
               /\ UNCHANGED loaderVars
          ELSE IF SkipsInHeadless(headless, mock, force)
          THEN /\ ReturnAtOnce(t, c,
                    [kind |-> "skipped", success |-> Some(TRUE),
                     models |-> [n \in (IF name = "all" THEN Names ELSE {name})
                                   |-> SkippedResult]])
               /\ UNCHANGED loaderVars
          ELSE \* loader = ModelLoader(config)
               /\ loader' = "cli"
               /\ enabled' = en
               /\ models' = {}
               /\ model_status' = InitStatus
               /\ BeginPass(t, c, IF name = "all" THEN available_models ELSE <<name>>)
               /\ UNCHANGED <<TF_AVAILABLE, TESSERACT_AVAILABLE, clock, importAttempts>>
    /\ UNCHANGED <<analysisVars, yoloVars, readerVars, pureVars>>

\* A loop that would take the names from the end of the list.
NextIndex_Last(names) == Len(names)

\* `for model_name in models_to_load:` takes the names in the order of the list.
NextIndex(names) == 1

RemoveAt(q, i) == SubSeq(q, 1, i - 1) \o SubSeq(q, i + 1, Len(q))

\* A loop that would not wait for the load it called.
CanDispatch_NoAwait(t) == TRUE

\* `results[model_name] = await self.load_..._model()`: the loop goes on to
\* the next name only when the load it awaits has returned.
CanDispatch(t) == inflight[t] = {}

\* The end of a step of the pass of thread t, with the results dict res and
\* the loads still running fl: the operation returns when nothing is left.
EndStep(t, rest, fl, res) ==
    /\ todo' = [todo EXCEPT ![t] = rest]
    /\ inflight' = [inflight EXCEPT ![t] = fl]
    /\ results' = [results EXCEPT ![t] = res]
    /\ IF rest = <<>> /\ fl = {}
       THEN /\ pc' = [pc EXCEPT ![t] = "done"]
            /\ ret' = [ret EXCEPT ![t] = Some(ReturnValue(call[t], res))]
       ELSE UNCHANGED <<pc, ret>>
    /\ UNCHANGED call

\* A load function that would not look at the configuration.
IsEnabled_Ignored(n) == TRUE

\* model_config.get("enabled", True) of the loader's configuration
IsEnabled(n) == enabled[n]

\* One iteration of the loop of load_models / load_models_thread, up to the
\* point where the load function has taken start_time (or has returned at once).
Dispatch(t) ==
    /\ pc[t] = "pass"
    /\ todo[t] # <<>>
    /\ CanDispatch(t)
    /\ LET i == NextIndex(todo[t])
           n == todo[t][i]
           rest == RemoveAt(todo[t], i)
       IN IF ~IsKnown(n)
          THEN /\ EndStep(t, rest, inflight[t], Put(results[t], n, UnknownResult))
               /\ UNCHANGED <<dispatched, recorded>>
          ELSE IF ~IsEnabled(n)
          THEN /\ EndStep(t, rest, inflight[t], Put(results[t], n, DisabledResult))
               /\ dispatched' = [dispatched EXCEPT ![t] = Append(@, n)]
               /\ UNCHANGED recorded
          ELSE /\ EndStep(t, rest, inflight[t] \cup {<<n, clock>>}, results[t])
               /\ dispatched' = [dispatched EXCEPT ![t] = Append(@, n)]
               /\ UNCHANGED recorded
    /\ UNCHANGED loaderVars
    /\ UNCHANGED <<analysisVars, yoloVars, readerVars, pureVars>>

\* The rest of load_<n>_model: the body, then the record of the outcome.
LoadFinish(t, n, env) ==
    /\ pc[t] = "pass"
    /\ \E st \in 0..clock :
        /\ <<n, st>> \in inflight[t]
        /\ LET body == LoadBody(n, env)
               e == Elapsed(st)
               fl == inflight[t] \ {<<n, st>>}
           IN IF body.raised # None /\ ~OuterCatches(body.raised[1].type)
              THEN \* the exception leaves the load function
                   /\ pc' = [pc EXCEPT ![t] = "raised"]
                   /\ inflight' = [inflight EXCEPT ![t] = fl]
                   /\ importAttempts' = IF body.tried THEN importAttempts \cup {n}
                                        ELSE importAttempts
                   /\ UNCHANGED <<models, model_status, call, todo, dispatched,
                                  recorded, results, ret>>
              ELSE /\ models' = IF body.raised = None THEN models \cup {n} ELSE models
                   /\ model_status' = RecordOutcome(n, LoadStatus(body, e))
                   /\ importAttempts' = IF body.tried THEN importAttempts \cup {n}
                                        ELSE importAttempts
                   /\ recorded' = [recorded EXCEPT ![t] = Append(@, n)]
                   /\ EndStep(t, todo[t], fl, Put(results[t], n, LoadResult(body, e)))
                   /\ UNCHANGED dispatched
    /\ UNCHANGED <<TF_AVAILABLE, TESSERACT_AVAILABLE, loader, enabled, clock>>
    /\ UNCHANGED <<analysisVars, yoloVars, readerVars, pureVars>>

\* Time goes by.  Only differences of time.time() are used, and only while a
\* load runs, so the clock is advanced only then.
Tick ==
    /\ clock < MaxClock
    /\ \E t \in Threads : inflight[t] # {}
    /\ clock' = clock + 1
    /\ UNCHANGED <<TF_AVAILABLE, TESSERACT_AVAILABLE, loader, enabled, models,
                   model_status, importAttempts, threadVars>>
    /\ UNCHANGED <<analysisVars, yoloVars, readerVars, pureVars>>

NextLoader ==
    \/ \E en \in [Names -> BOOLEAN] : ModelLoaderInit("api", en)
    \/ \E t \in Threads, req \in Requests : LoadModels(t, req)
    \/ \E t \in Threads, name \in Names \cup {"all", UnknownName},
          force \in BOOLEAN, headless \in BOOLEAN, mock \in BOOLEAN,
          en \in [Names -> BOOLEAN] :
            TestModelLoading(t, name, force, headless, mock, en)
    \/ \E t \in Threads : Dispatch(t)
    \/ \E t \in Threads, n \in Names, env \in EnvOutcomes : LoadFinish(t, n, env)
    \/ Tick

SpecLoader == InitLoader /\ [][NextLoader]_vars

-----------------------------------------------------------------------------
\* The window (gui/main_window.py): one ModelLoader, load passes on worker
\* threads, and update_model_status on the main thread.

\* The configurations the window is started with.
GuiConfigs == {[n \in Names |-> TRUE], [n \in Names |-> n # "cocossd"]}

\* MainWindow.init_model_loader: constructs the loader and shows its status.
InitModelLoader(en) ==
    /\ loader = "none"
    /\ \A t \in Threads : pc[t] = "idle"
    /\ loader' = "gui"
    /\ enabled' = en
    /\ models' = {}
    /\ model_status' = InitStatus
    /\ toread' = available_models
    /\ UNCHANGED <<held, observed>>
    /\ UNCHANGED <<TF_AVAILABLE, TESSERACT_AVAILABLE, clock, importAttempts, threadVars>>
    /\ UNCHANGED <<analysisVars, yoloVars, pureVars>>

\* MainWindow.on_models_loaded: the worker thread has ended; the handler
\* shows the status again.
OnModelsLoaded(t) ==
    /\ loader = "gui"
    /\ pc[t] \in {"done", "raised"}
    /\ ReaderIdle
    /\ pc' = [pc EXCEPT ![t] = "idle"]
    /\ call' = [call EXCEPT ![t] = NoCall]
    /\ todo' = [todo EXCEPT ![t] = <<>>]
    /\ inflight' = [inflight EXCEPT ![t] = {}]
    /\ dispatched' = [dispatched EXCEPT ![t] = <<>>]
    /\ recorded' = [recorded EXCEPT ![t] = <<>>]
    /\ results' = [results EXCEPT ![t] = EmptyDict]
    /\ ret' = [ret EXCEPT ![t] = None]
    /\ toread' = available_models
    /\ UNCHANGED <<held, observed>>
    /\ UNCHANGED loaderVars
    /\ UNCHANGED <<analysisVars, yoloVars, pureVars>>

\* `for model_name, model_status in status.items():` the reader gets the
\* dict that is bound to the next key at this moment.
ReadTake ==
    /\ toread # <<>>
    /\ held = None \/ observed # None
    /\ held' = Some([name |-> Head(toread), rec |-> model_status[Head(toread)]])
    /\ observed' = None
    /\ toread' = Tail(toread)
    /\ UNCHANGED <<loaderVars, threadVars, analysisVars, yoloVars, pureVars>>

\* A reader whose dict a load would write into.
HeldRecord_InPlace(taken, current) ==
    [loaded |-> taken.loaded, error |-> current.error, time |-> current.time]

\* The dict the reader holds, when it reads error and time from it: a load
\* binds a new dict literal to the key and writes into no existing dict, so
\* the dict is as it was when the reader got it.
HeldRecord(taken, current) == taken

\* model_status.get("loaded"), .get("error"), .get("time") on the held dict;
\* loaded was read when the dict was taken.
ReadFields ==
    /\ held # None
    /\ observed = None
    /\ observed' = Some(HeldRecord(held[1].rec, model_status[held[1].name]))
    /\ UNCHANGED <<toread, held>>
    /\ UNCHANGED <<loaderVars, threadVars, analysisVars, yoloVars, pureVars>>

\* What the environment does to a load started from the window.
GuiEnvOutcomes == {[kind |-> "ok", msg |-> <<>>], [kind |-> "Exception", msg |-> <<"boom">>]}

InitGui ==
    /\ TF_AVAILABLE = TRUE
    /\ TESSERACT_AVAILABLE = TRUE
    /\ PIL_AVAILABLE = TRUE
    /\ YOLO_AVAILABLE = TRUE
    /\ LoaderStart
    /\ AnalysisStart
    /\ fin = NoInput

NextGui ==
    \/ \E en \in GuiConfigs : InitModelLoader(en)
    \/ \E t \in Threads : GuiLoadModels(t)
    \/ \E t \in Threads : Dispatch(t)
    \/ \E t \in Threads, n \in Names, env \in GuiEnvOutcomes : LoadFinish(t, n, env)
    \/ \E t \in Threads : OnModelsLoaded(t)
    \/ ReadTake
    \/ ReadFields

SpecGui == InitGui /\ [][NextGui]_vars

-----------------------------------------------------------------------------
\* A program that owns a ModelLoader, calls load_models on it and reads its
\* status map the way update_model_status does.

\* The program reads loader.model_status.
StatusRead ==
    /\ loader = "api"
    /\ ReaderIdle
    /\ toread' = available_models
    /\ UNCHANGED <<held, observed>>
    /\ UNCHANGED <<loaderVars, threadVars, analysisVars, yoloVars, pureVars>>

NextApi ==
    \/ \E en \in GuiConfigs : ModelLoaderInit("api", en)
    \/ \E t \in Threads, req \in Requests : LoadModels(t, req)
    \/ \E t \in Threads : Dispatch(t)
    \/ \E t \in Threads, n \in Names, env \in GuiEnvOutcomes : LoadFinish(t, n, env)
    \/ StatusRead
    \/ ReadTake
    \/ ReadFields

SpecApi == InitGui /\ [][NextApi]_vars

-----------------------------------------------------------------------------
\* The state of a backend in the state machine of the loader.
Loading(n) == \E t \in Threads : \E p \in inflight[t] : p[1] = n
Loaded(n) == model_status[n].loaded
Failed(n) == ~model_status[n].loaded /\ model_status[n].error # None
NotLoaded(n) == ~model_status[n].loaded /\ model_status[n].error = None

\* C1 (as claimed): a load of an enabled backend does not raise; a load that
\* returned success=false left {loaded: false, error: non-empty text,
\* time >= 0} in the status map, and one that returned success=true left
\* {loaded: true, error: null, time >= 0}.
C1_LoadOutcomeRecorded ==
    \A t \in Threads :
        /\ pc[t] # "raised"
        /\ \A n \in DOMAIN results[t] \cap Names :
              enabled[n] =>
                LET r == results[t][n]
                    st == model_status[n]
                IN /\ st.time # None /\ st.time[1] >= 0
                   /\ r.success => (st.loaded /\ st.error = None)
                   /\ ~r.success => (~st.loaded /\ st.error # None /\ st.error[1] # <<>>)

\* C2: the status record of a backend changes only as the outcome of a load
\* of that backend that was in progress (Loading), the new record being a
\* Loaded or a Failed one; a Failed backend with no load in progress keeps
\* its record.
C2_StateMachine ==
    [][\A n \in Names :
          /\ model_status'[n] # model_status[n]
                => /\ Loading(n)
                   /\ \/ (model_status'[n].loaded /\ model_status'[n].error = None)
                      \/ (~model_status'[n].loaded /\ model_status'[n].error # None)
                   /\ model_status'[n].time # None
          /\ (Failed(n) /\ ~Loading(n)) => model_status'[n] = model_status[n]
      ]_vars

\* A Failed backend whose reload is in progress.
C2_Witness == \E n \in Names : Failed(n) /\ Loading(n)

\* C7: a load test over all backends with headless_mode and mock_in_headless
\* set and force_load unset returns success for the whole and for each of the
\* three backends, each marked skipped, and has constructed no loader,
\* attempted no import and changed no status record.
HeadlessAllCall(t) ==
    /\ pc[t] = "done"
    /\ call[t].op = "test_model_loading"
    /\ call[t].name = "all"
    /\ call[t].headless /\ call[t].mock /\ ~call[t].force

C7_HeadlessSkip ==
    \A t \in Threads :
        HeadlessAllCall(t) =>
            /\ ret[t] # None
            /\ ret[t][1].success = Some(TRUE)
            /\ DOMAIN ret[t][1].models = Names
            /\ \A n \in Names : /\ ret[t][1].models[n].success
                                /\ ret[t][1].models[n].message = MsgSkipped
            /\ loader = "none"
            /\ importAttempts = {}
            /\ model_status = InitStatus
            /\ models = {}

C7_Witness == \E t \in Threads : HeadlessAllCall(t)

\* The enabled backends of a list of names.
EnabledOnly(q) == SelectSeq(q, LAMBDA n : enabled[n])

\* The place of a backend in the fixed order mobilenet, cocossd, tesseract.
Pos(n) == CHOOSE i \in 1..Len(available_models) : available_models[i] = n

\* C8 (as claimed): whatever the order of the request, the backends are
\* loaded in the order mobilenet, cocossd, tesseract.
C8_FixedOrder ==
    \A t \in Threads :
        \A i, j \in 1..Len(recorded[t]) :
            i < j => Pos(recorded[t][i]) <= Pos(recorded[t][j])

\* The names a pass was asked for, and those it has taken up so far.
Asked(t) ==
    IF call[t].op = "load_models" /\ call[t].req # None THEN call[t].req[1]
    ELSE IF call[t].op = "test_model_loading" /\ call[t].name # "all"
    THEN <<call[t].name>>
    ELSE available_models
TakenUp(t) == SubSeq(Asked(t), 1, Len(Asked(t)) - Len(todo[t]))

\* C8 (amended): the backends are loaded one after another in the order the
\* names have in the request, and in the order mobilenet, cocossd, tesseract
\* when no names are given.
RanPass(t) ==
    /\ pc[t] \in {"pass", "done"}
    /\ ret[t] # None => ret[t][1].kind \notin {"unknown", "skipped"}

C8_RequestOrder ==
    \A t \in Threads :
        RanPass(t)
            => /\ Len(todo[t]) <= Len(Asked(t))
               /\ dispatched[t] = SelectSeq(TakenUp(t), IsKnown)
               /\ pc[t] = "done" => recorded[t] = EnabledOnly(SelectSeq(Asked(t), IsKnown))
               /\ (call[t].op = "load_models" /\ call[t].req = None /\ pc[t] = "done")
                     => dispatched[t] = <<"mobilenet", "cocossd", "tesseract">>

\* A finished pass that loaded tesseract before mobilenet, as requested.
C8_Witness ==
    \E t \in Threads :
        /\ pc[t] = "done"
        /\ call[t].op = "load_models"
        /\ dispatched[t] = <<"tesseract", "mobilenet">>
        /\ recorded[t] = <<"tesseract", "mobilenet">>

\* A load test over all backends that did load (was not skipped).
AggregateCall(t) ==
    /\ pc[t] = "done"
    /\ call[t].op = "test_model_loading"
    /\ call[t].name = "all"
    /\ ret[t] # None
    /\ ret[t][1].kind = "aggregate"

\* C9: the aggregate of a load test over all backends is success=true exactly
\* when every backend's own outcome is success=true, which is when every
\* backend ended Loaded; a backend that failed or is disabled makes it false.
C9_AggregateIffAll ==
    \A t \in Threads :
        AggregateCall(t) =>
            LET r == ret[t][1]
            IN /\ r.success # None
               /\ DOMAIN r.models = Names
               /\ r.success[1] <=> (\A n \in Names : r.models[n].success)
               /\ r.success[1] <=> (\A n \in Names : Loaded(n))
               /\ (\E n \in Names : ~enabled[n] \/ Failed(n)) => ~r.success[1]

\* An aggregate that is false although a backend loaded: another one failed.
C9_Witness ==
    \E t \in Threads :
        /\ AggregateCall(t)
        /\ ret[t][1].success = Some(FALSE)
        /\ \E n, m \in Names : Loaded(n) /\ Failed(m) /\ enabled[m]

\* C10: a pass has at most one load in progress, and while the load of a
\* backend is in progress every backend the pass took up before it has its
\* outcome recorded.
C10_NoOverlap ==
    \A t \in Threads :
        /\ Cardinality(inflight[t]) <= 1
        /\ \A p \in inflight[t] : EnabledOnly(dispatched[t]) = Append(recorded[t], p[1])
        /\ (inflight[t] = {} /\ pc[t] # "raised") => EnabledOnly(dispatched[t]) = recorded[t]

\* The load of a second backend in progress, the first one's outcome recorded.
C10_Witness ==
    \E t \in Threads :
        /\ inflight[t] # {}
        /\ Len(recorded[t]) >= 1
        /\ \A p \in inflight[t] : p[1] # recorded[t][1]

\* C11: the status record of a backend changes only as the effect of a load
\* of that same backend: a step that changes the record of n is the end of a
\* load of n and leaves every other record as it was, so reading the status,
\* loading another backend and asking for an unknown name change nothing of
\* it; and the keys of the map are always the three backend names.
EndsLoadOf(n) ==
    \E t \in Threads :
        /\ \E p \in inflight[t] : p[1] = n
        /\ recorded'[t] = Append(recorded[t], n)

C11_StatusFrame ==
    [][/\ DOMAIN model_status = Names
       /\ DOMAIN model_status' = Names
       /\ \A n \in Names :
             model_status'[n] # model_status[n]
                 => /\ EndsLoadOf(n)
                    /\ \A m \in Names \ {n} : model_status'[m] = model_status[m]
       /\ readerVars' # readerVars => model_status' = model_status
       /\ (\E t \in Threads : DOMAIN results'[t] \ Names # DOMAIN results[t] \ Names)
             => model_status' = model_status
      ]_vars

\* A pass that was asked for an unknown name and loaded cocossd, and a reader
\* that has read the record of mobilenet, which is as it was at the start.
C11_Witness ==
    /\ \E t \in Threads :
          /\ pc[t] = "done"
          /\ UnknownName \in DOMAIN results[t]
          /\ recorded[t] = <<"cocossd">>
    /\ Loaded("cocossd")
    /\ model_status["mobilenet"] = InitStatus["mobilenet"]
    /\ held # None /\ held[1].name = "mobilenet"
    /\ observed = Some(InitStatus["mobilenet"])

\* A complete record: the one of __init__, one of a load that succeeded or
\* one of a load that failed.
CompleteRecord(r) ==
    \/ r = [loaded |-> FALSE, error |-> None, time |-> None]
    \/ r.loaded /\ r.error = None /\ r.time # None
    \/ ~r.loaded /\ r.error # None /\ r.time # None

\* C12: a reader of the status map that runs while loads run never observes
\* a half-updated record: what it reads of a backend is the complete record
\* that was bound to the backend when it took it, be it stale by now, and
\* never, for example, loaded = true together with an error.
C12_NoTornRead ==
    /\ \A n \in Names : CompleteRecord(model_status[n])
    /\ observed # None
          => /\ held # None
             /\ observed[1] = held[1].rec
             /\ CompleteRecord(observed[1])
             /\ ~(observed[1].loaded /\ observed[1].error # None)

\* The reader has read a Loaded record of a backend that a load of another
\* pass, still running, has made Failed since.
C12_Witness ==
    /\ observed # None
    /\ observed[1].loaded
    /\ Failed(held[1].name)
    /\ \E t \in Threads : pc[t] = "pass"

-----------------------------------------------------------------------------
\* The analysis pipeline.

MaxRuns == 2
MaxNow == 1

\* The images handed to analyze_image: a file that opens, a path with no
\* file, a file that is no image.
Images ==
    {[stem |-> "shot", state |-> "ok", width |-> 640, height |-> 480,
      color |-> [brightness_percent |-> 70, color_variance |-> 40]],
     [stem |-> "icon", state |-> "ok", width |-> 100, height |-> 100,
      color |-> EmptyDict],
     [stem |-> "gone", state |-> "missing", width |-> 0, height |-> 0,
      color |-> EmptyDict],
     [stem |-> "junk", state |-> "corrupt", width |-> 0, height |-> 0,
      color |-> EmptyDict]}

MsgNoPIL == <<"PIL (Pillow) is not installed">>
MsgNotLoaded == <<"model is not loaded">>
DetailsPrefix == "failed to get image details: "
VisualPrefix == "failed to generate visual feedback: "

\* round(ratio, 2) of ratio = width / height, in hundredths: the nearest
\* hundredth. (No width / height used below lies half way between two
\* hundredths.)
Round2(width, height) == (200 * width + height) \div (2 * height)

\* The table of get_aspect_ratio_name in the order of its if / elif chain:
\* the constant compared with, in hundredths, and the name returned.
AspectTable ==
    <<[c |-> 133, name |-> "4:3"],
      [c |-> 178, name |-> "16:9"],
      [c |-> 160, name |-> "16:10"],
      [c |-> 185, name |-> "1.85:1"],
      [c |-> 235, name |-> "2.35:1"],
      [c |-> 100, name |-> "1:1"],
      [c |-> 75, name |-> "3:4"],
      [c |-> 56, name |-> "9:16"]>>

\* The pairs (constant, rounded) three hundredths apart for which the
\* binary64 difference abs(rounded - constant) is not above the binary64
\* 0.03: abs(1.63 - 1.6) <= 0.03 is True, abs(1.36 - 1.33) <= 0.03 is False.
FloatBoundaryHits == {<<160, 163>>, <<185, 188>>, <<235, 238>>, <<56, 59>>}

\* abs(rounded - c) <= 0.03 as binary64 arithmetic decides it.
WithinTolerance(rounded, c) ==
    LET d == IF rounded >= c THEN rounded - c ELSE c - rounded
    IN \/ d <= 2
       \/ d = 3 /\ <<c, rounded>> \in FloatBoundaryHits

\* get_aspect_ratio_name(ratio) for ratio = width / height: the name of the
\* first row of the table that rounded is within tolerance of, or
\* f"{rounded:.2f}:1", kept as the hundredths it prints.
GetAspectRatioName(width, height) ==
    LET rounded == Round2(width, height)
        hits == {i \in 1..Len(AspectTable) : WithinTolerance(rounded, AspectTable[i].c)}
        first == CHOOSE i \in hits : \A j \in hits : i <= j
    IN IF hits # {} THEN [kind |-> "named", name |-> AspectTable[first].name]
       ELSE [kind |-> "custom", hundredths |-> rounded]

\* color_info.get(key, 50): the value, a percentage or a deviation in whole
\* units, or 50 where the key is absent.
GetOr50(color_info, key) ==
    IF key \in DOMAIN color_info THEN color_info[key] ELSE 50

\* `a if value > upper else b if value > lower else c`
Bucket(value, upper, lower, names) ==
    IF value > upper THEN names[1] ELSE IF value > lower THEN names[2] ELSE names[3]

\* debug_info["color_analysis"] of analyze_image.
ColorAnalysis(color_info) ==
    [estimated_brightness |->
         Bucket(GetOr50(color_info, "brightness_percent"), 70, 30,
                <<"bright", "medium", "dark">>),
     color_variance |->
         Bucket(GetOr50(color_info, "color_variance"), 80, 40,
                <<"high", "medium", "low">>)]

\* get_image_details(image_path): what it raises (None when it returns) and
\* what it returns.
GetImageDetails(img) ==
    IF ~PIL_AVAILABLE
    THEN [raised |-> Some(Exc("ImageAnalysisError", MsgNoPIL)), details |-> None]
    ELSE IF img.state # "ok"
    \* file_path.stat() or Image.open raises; re-raised as ImageAnalysisError
    THEN [raised |-> Some(Exc("ImageAnalysisError", <<DetailsPrefix, img.state>>)),
          details |-> None]
    ELSE [raised |-> None,
          details |-> Some([width |-> img.width,
                            height |-> img.height,
                            color_info |-> img.color,
                            aspect_ratio_name |->
                                GetAspectRatioName(img.width, img.height)])]

\* What the backend reports for an image: lists of boxes (label, confidence
\* in hundredths).
BoxLists ==
    {<<>>,
     <<[label |-> "person", confidence |-> 90], [label |-> "dog", confidence |-> 50]>>}

\* What the environment does to a detect call: whether YOLO(model_path)
\* loads, whether inference raises, the boxes found, the box (0: none) whose
\* conversion raises, and the message of the exception raised.
DetectEnvs ==
    [load : {"ok", "fail"}, infer : {"ok", "exc"}, boxes : BoxLists,
     mapfail : 0..2, msg : ExcTexts]

\* YOLOModel.load(): what it returns, which is also is_loaded afterwards.
YoloLoad(env) == YOLO_AVAILABLE /\ env.load = "ok"

\* A detect that would go on after a load that failed.
ProceedsToInference_IgnoresLoad(is_loaded, env) == TRUE

\* `if not self.is_loaded: if not self.load(): return {...}`: detect goes on
\* to the inference when the model is loaded or the load it calls succeeds.
ProceedsToInference(is_loaded, env) == is_loaded \/ YoloLoad(env)

\* The calls a detect makes, each with is_loaded at the time of the call.
DetectEvents(is_loaded, env) ==
    (IF ~is_loaded THEN <<[ev |-> "load", is_loaded |-> is_loaded]>> ELSE <<>>)
    \o (IF ProceedsToInference(is_loaded, env)
        THEN <<[ev |-> "infer", is_loaded |-> is_loaded \/ YoloLoad(env)]>>
        ELSE <<>>)

\* The fault, if any, of a detect call on a model with the given is_loaded.
DetectFault(is_loaded, env) ==
    IF ~ProceedsToInference(is_loaded, env) THEN "load"
    ELSE IF env.infer = "exc" THEN "infer"
    ELSE IF env.mapfail >= 1 /\ env.mapfail <= Len(env.boxes) THEN "map"
    ELSE "none"

\* A handler that would keep the objects collected before the exception.
DetectErrorResult_KeepsCollected(collected, msg, path) ==
    [error |-> msg, objects |-> collected, image_path |-> path]

\* `except Exception as e:` of YOLOModel.detect: the objects collected before
\* the exception are dropped.
DetectErrorResult(collected, msg, path) ==
    [error |-> msg, objects |-> <<>>, image_path |-> path]

\* `except Exception as e:` of YOLOModel.detect catches every exception class
\* raised by the backend and by the conversion of its boxes.
DetectCatches(type) == type \in {"Exception"}

\* YOLOModel.detect(image_path) on a model with the given is_loaded: the dict
\* returned (None when an exception leaves the method) and is_loaded
\* afterwards.
YoloDetect(is_loaded, env, path) ==
    LET fault == DetectFault(is_loaded, env)
        collected == IF fault = "map" THEN SubSeq(env.boxes, 1, env.mapfail - 1)
                     ELSE <<>>
    IN IF fault = "load"
       THEN [out |-> Some([error |-> MsgNotLoaded, objects |-> <<>>]),
             is_loaded |-> FALSE]
       ELSE IF fault \in {"infer", "map"}
       THEN [out |-> IF DetectCatches("Exception")
                     THEN Some(DetectErrorResult(collected, env.msg, path))
                     ELSE None,
             is_loaded |-> TRUE]
       ELSE [out |-> Some([objects |-> env.boxes, count |-> Len(env.boxes),
                           image_path |-> path, model |-> "yolov8"]),
             is_loaded |-> TRUE]

\* detect of the YOLOModel class that pdfexpy.models defines when
\* yolo_model cannot be imported.
FallbackDetect == [error |-> <<"YOLO model is not installed">>, objects |-> <<>>]

\* The mean of the confidences, as the fraction sum / count; 0.0 when empty.
RECURSIVE SumConfidence(_)
SumConfidence(objs) ==
    IF objs = <<>> THEN 0 ELSE Head(objs).confidence + SumConfidence(Tail(objs))
AvgConfidence(objs) ==
    IF objs # <<>> THEN [num |-> SumConfidence(objs), den |-> 100 * Len(objs)]
    ELSE [num |-> 0, den |-> 1]

\* object_counts[label] = object_counts.get(label, 0) + 1 on a dict, which
\* keeps its keys in the order of their insertion: a sequence of
\* [label, count], the count of a label already there being raised in place.
CountLabel(counts, l) ==
    IF \E i \in 1..Len(counts) : counts[i].label = l
    THEN [i \in 1..Len(counts) |->
            IF counts[i].label = l
            THEN [label |-> l, count |-> counts[i].count + 1]
            ELSE counts[i]]
    ELSE Append(counts, [label |-> l, count |-> 1])

\* `for obj in objects:` over the objects, from the counts so far.
RECURSIVE ObjectCounts(_, _)
ObjectCounts(objs, counts) ==
    IF objs = <<>> THEN counts
    ELSE ObjectCounts(Tail(objs), CountLabel(counts, Head(objs).label))

\* A description that would list the labels most frequent first.
RECURSIVE Description_ByCount(_)
Description_ByCount(objs) ==
    LET parts == ObjectCounts(objs, <<>>)
        top == CHOOSE i \in 1..Len(parts) :
                   \A j \in 1..Len(parts) : parts[j].count <= parts[i].count
    IN IF parts = <<>> THEN [phrase |-> "no objects detected", parts |-> <<>>]
       ELSE [phrase |-> "contains",
             parts |-> <<parts[top]>>
                       \o Description_ByCount(
                              SelectSeq(objs, LAMBDA o : o.label # parts[top].label)).parts]

\* The description: "contains" followed by one part per key of
\* object_counts, or the fixed phrase when there is none.
Description(objs) ==
    LET parts == ObjectCounts(objs, <<>>)
    IN IF parts # <<>> THEN [phrase |-> "contains", parts |-> parts]
       ELSE [phrase |-> "no objects detected", parts |-> <<>>]

\* build_analysis_results(image_path, image_details, detection_results)
BuildAnalysisResults(det) ==
    LET objects == IF "objects" \in DOMAIN det THEN det.objects ELSE <<>>
    IN [objects |-> objects,
        description |-> Description(objects),
        tags |-> {objects[i].label : i \in 1..Len(objects)},
        confidence |-> AvgConfidence(objects),
        ocr |-> [detected |-> FALSE, text |-> <<>>, regions |-> <<>>]]

\* The sizes x up to 1000 pixels at which the double x * 0.7 is just below
\* the whole number x * 7 / 10, so that int() gives one less
\* (int(90 * 0.7) is 62).
FloatShort07 ==
    {90, 170, 180, 330, 340, 350, 360, 650, 660, 670, 680, 690, 700, 710, 720, 730}

\* A conversion that would round up instead of cutting the fraction off.
MulTrunc_RoundsUp(x, permille) == (x * permille + 999) \div 1000

\* int(x * f) for the factor f = permille / 1000 of the mock boxes.
MulTrunc(x, permille) ==
    IF permille = 700 /\ x \in FloatShort07 THEN (x * permille) \div 1000 - 1
    ELSE (x * permille) \div 1000

\* A bbox of the mock data: the factors, in thousandths, of width and height.
MockBox(width, height, fx, fy, fw, fh) ==
    [x |-> MulTrunc(width, fx), y |-> MulTrunc(height, fy),
     width |-> MulTrunc(width, fw), height |-> MulTrunc(height, fh)]

\* A mock provider that would name its first object after the file.
GenerateMockAnalysisResults_NamesFile(image_path, details) ==
    [objects |-> <<[label |-> image_path, confidence |-> 92,
                    bbox |-> MockBox(details.width, details.height, 100, 100, 800, 700)]>>,
     ocr |-> [detected |-> TRUE, confidence |-> 72, text |-> <<>>, regions |-> <<>>],
     description |-> [phrase |-> "a screenshot of a desktop", parts |-> <<>>],
     tags |-> {"screenshot"},
     confidence |-> [num |-> 87, den |-> 100]]

\* generate_mock_analysis_results(image_path, image_details)
GenerateMockAnalysisResults(image_path, details) ==
    LET width == details.width
        height == details.height
    IN [objects |-> <<[label |-> "window", confidence |-> 92,
                       bbox |-> MockBox(width, height, 100, 100, 800, 700)],
                      [label |-> "icon", confidence |-> 85,
                       bbox |-> MockBox(width, height, 50, 100, 50, 67)],
                      [label |-> "text", confidence |-> 76,
                       bbox |-> MockBox(width, height, 200, 150, 600, 50)]>>,
        ocr |-> [detected |-> TRUE,
                 confidence |-> 72,
                 text |-> <<"sample text - mock data for debugging">>,
                 regions |-> <<[text |-> <<"sample text">>, confidence |-> 78,
                                bbox |-> MockBox(width, height, 200, 150, 300, 50)],
                               [text |-> <<"mock data for debugging">>, confidence |-> 65,
                                bbox |-> MockBox(width, height, 200, 200, 400, 50)]>>],
        description |-> [phrase |-> "a screenshot of a desktop with windows, icons and text",
                         parts |-> <<>>],
        tags |-> {"screenshot (ja)", "desktop (ja)", "window (ja)", "UI"},
        confidence |-> [num |-> 87, den |-> 100]]

\* The report of analyze_image.
FullResults(a, details, analysis, model_used, stamp) ==
    [metadata |-> [version |-> "1.0.0",
                   mode |-> IF a.mock THEN "mock_analysis" ELSE "yolo_analysis",
                   image_path |-> a.image.stem],
     image_details |-> details,
     analysis |-> analysis,
     debug_info |-> [mock_data |-> a.mock,
                     model_used |-> IF a.mock THEN None ELSE Some(model_used),
                     color_analysis |-> ColorAnalysis(details.color_info)],
     \* time.time() - start_time: a sub-second measurement that nothing reads
     performance |-> [analysis_time_seconds |-> "elapsed",
                      analysis_time_ms |-> "elapsed * 1000"],
     timestamp |-> stamp]

\* json.dump of a Python value of the report: True / False are written true
\* / false, None is written null, a str is written as itself.
JsonBool(b) == IF b THEN "true" ELSE "false"
JsonOptional(o) == IF o = None THEN "null" ELSE o[1]

\* json.load of these: true / false give True / False, null gives None.
PyBool(j) == j = "true"
PyOptional(j) == IF j = "null" THEN None ELSE Some(j)

\* json.dump(full_results, f): the document written. Numbers, strings, lists
\* and dicts with string keys are written as they are.
JsonDump(report) ==
    [report EXCEPT !.debug_info.mock_data = JsonBool(@),
                   !.debug_info.model_used = JsonOptional(@),
                   !.analysis.ocr.detected = JsonBool(@)]

\* json.load of a report document.
JsonLoad(document) ==
    [document EXCEPT !.debug_info.mock_data = PyBool(@),
                     !.debug_info.model_used = PyOptional(@),
                     !.analysis.ocr.detected = PyBool(@)]

\* A return that would note the artifact in the report it hands back.
ResultOnSuccess_NotesArtifact(report, path, visual) ==
    [results |-> [report EXCEPT !.metadata = Put(@, "visual_feedback", visual)],
     result_file |-> path,
     visual_feedback |-> visual,
     success |-> TRUE]

\* The dict analyze_image returns at its end.
ResultOnSuccess(report, path, visual) ==
    [results |-> report,
     result_file |-> path,
     visual_feedback |-> visual,
     success |-> TRUE]

\* The decimal digits.
Digit(d) == <<"0", "1", "2", "3", "4", "5", "6", "7", "8", "9">>[d + 1]

\* datetime.datetime.now().strftime("%Y%m%d_%H%M%S") within one minute: the
\* date, hours and minutes, and the second as two digits.
Strftime(second) == <<"YYYYMMDD_HHMM", Digit(second \div 10), Digit(second % 10)>>

\* A report name that would leave the stem out.
ReportPath_NoStem(stem, stamp) == <<"analysis", "_", "_">> \o stamp \o <<".json">>

\* f"analysis_{filename}_{timestamp}.json" in the output directory, as the
\* pieces of text it is made of; the stem is a sequence of pieces.
ReportPath(stem, stamp) == <<"analysis", "_">> \o stem \o <<"_">> \o stamp \o <<".json">>

\* f"{filename}_feedback_{timestamp}.png" in the output directory.
FeedbackPath(stem, stamp) == stem \o <<"_", "feedback", "_">> \o stamp \o <<".png">>

\* analysis_results.get("analysis", {})
AnalysisOf(analysis_results) ==
    IF "analysis" \in DOMAIN analysis_results THEN analysis_results.analysis ELSE EmptyDict

\* The drawing of the detected objects: for each, in order, its box and its
\* label.
ObjectDraws(analysis_results) ==
    LET analysis == AnalysisOf(analysis_results)
    IN IF "objects" \in DOMAIN analysis
       THEN [i \in 1..Len(analysis.objects) |->
                [op |-> "object", label |-> analysis.objects[i].label]]
       ELSE <<>>

\* A test that would look only for the presence of the OCR section.
OcrIsDrawn_WheneverPresent(analysis) == "ocr" \in DOMAIN analysis

\* "ocr" in analysis and analysis["ocr"].get("detected", False)
OcrIsDrawn(analysis) ==
    /\ "ocr" \in DOMAIN analysis
    /\ "detected" \in DOMAIN analysis.ocr
    /\ analysis.ocr.detected

\* The drawing of the OCR regions: for each, in order, its box and its text.
RegionDraws(analysis_results) ==
    LET analysis == AnalysisOf(analysis_results)
        regions == IF "regions" \in DOMAIN analysis.ocr THEN analysis.ocr.regions
                   ELSE <<>>
    IN IF OcrIsDrawn(analysis)
       THEN [i \in 1..Len(regions) |-> [op |-> "region", text |-> regions[i].text]]
       ELSE <<>>

\* The panel with the name, the resolution and the aspect ratio of the image.
InfoDraws(analysis_results) ==
    <<[op |-> "info",
       aspect_ratio_name |-> analysis_results.image_details.aspect_ratio_name]>>

\* The panel with the summary of the analysis, when there is an analysis.
SummaryDraws(analysis_results) ==
    IF "analysis" \in DOMAIN analysis_results
    THEN <<[op |-> "summary",
            objects |-> IF "objects" \in DOMAIN analysis_results.analysis
                        THEN Len(analysis_results.analysis.objects) ELSE 0]>>
    ELSE <<>>

\* A function that would return the name of the file with a suffix of its own.
GenerateVisualFeedback_OwnName(analysis_results, output_file, env) ==
    IF ~PIL_AVAILABLE \/ ~env.ok \/ "image_details" \notin DOMAIN analysis_results
    THEN [raised |-> Some(Exc("ImageAnalysisError", MsgNoPIL)), returned |-> None,
          calls |-> <<>>]
    ELSE [raised |-> None,
          returned |-> Some(output_file \o <<".png">>),
          calls |-> ObjectDraws(analysis_results) \o RegionDraws(analysis_results)
                    \o InfoDraws(analysis_results) \o SummaryDraws(analysis_results)
                    \o <<[op |-> "save", path |-> output_file \o <<".png">>]>>]

\* generate_visual_feedback(image_path, analysis_results, output_file): what
\* it raises (None when it returns), what it returns, and the calls it has
\* made on the image, the last of them annotated_img.save(output_file). env
\* tells whether opening, drawing on and saving the image work.
GenerateVisualFeedback(analysis_results, output_file, env) ==
    IF ~PIL_AVAILABLE
    THEN [raised |-> Some(Exc("ImageAnalysisError", MsgNoPIL)), returned |-> None,
          calls |-> <<>>]
    ELSE IF ~env.ok
    THEN [raised |-> Some(Exc("ImageAnalysisError", <<VisualPrefix>> \o env.msg)),
          returned |-> None, calls |-> <<>>]
    ELSE IF "image_details" \notin DOMAIN analysis_results
    \* KeyError, re-raised as ImageAnalysisError
    THEN [raised |-> Some(Exc("ImageAnalysisError", <<VisualPrefix, "'image_details'">>)),
          returned |-> None, calls |-> <<>>]
    ELSE [raised |-> None,
          returned |-> Some(output_file),
          calls |-> ObjectDraws(analysis_results) \o RegionDraws(analysis_results)
                    \o InfoDraws(analysis_results) \o SummaryDraws(analysis_results)
                    \o <<[op |-> "save", path |-> output_file]>>]

\* A handler that would catch only the errors of the analysis itself.
AnalyzeCatches_OnlyAnalysisError(type) == type = "ImageAnalysisError"

\* `except Exception as e:` of analyze_image catches every exception class
\* raised inside it.
AnalyzeCatches(type) == type \in {"ImageAnalysisError", "OSError", "Exception"}

\* A handler that would hand back what the run had produced before it failed.
AnalyzeFails_KeepsProduct(exc, fault) ==
    /\ afault' = fault
    /\ apc' = "done"
    /\ aresult' = Some([error |-> exc.msg, success |-> FALSE,
                        results |-> full_results, result_file |-> result_file])

\* An exception raised inside the try: block of analyze_image.
AnalyzeFails(exc, fault) ==
    /\ afault' = fault
    /\ IF AnalyzeCatches(exc.type)
       THEN /\ apc' = "done"
            /\ aresult' = Some([error |-> exc.msg, success |-> FALSE])
       ELSE /\ apc' = "raised"
            /\ aresult' = None

InitAnalyze ==
    /\ TF_AVAILABLE = TRUE
    /\ TESSERACT_AVAILABLE = TRUE
    /\ PIL_AVAILABLE \in BOOLEAN
    /\ YOLO_AVAILABLE \in BOOLEAN
    /\ LoaderStart
    /\ AnalysisStart
    /\ fin = NoInput

\* analyze_image(image_path, output_dir, generate_visual, mock), up to the
\* return of get_image_details.
AnalyzeImage(img, gen, mock, dirOk) ==
    /\ apc = "idle"
    /\ runs < MaxRuns
    \* the pipeline constructs its own YOLOModel and shares nothing with a
    \* model object used directly: the two are explored one at a time
    /\ yolo_fault = "none" /\ yolo_out = None
    /\ runs' = runs + 1
    /\ aargs' = Some([image |-> img, generate_visual |-> gen, mock |-> mock])
    /\ written' = {}
    /\ IF ~dirOk
       THEN \* ensure_output_dir raises
            /\ AnalyzeFails(Exc("OSError", <<"cannot create directory">>), "dir")
            /\ UNCHANGED image_details
       ELSE LET d == GetImageDetails(img)
            IN IF d.raised # None
               THEN /\ AnalyzeFails(d.raised[1], "input")
                    /\ UNCHANGED image_details
               ELSE /\ image_details' = d.details
                    /\ apc' = "detect"
                    /\ UNCHANGED <<aresult, afault>>
    /\ UNCHANGED <<PIL_AVAILABLE, YOLO_AVAILABLE, now, fs_reports, fs_artifacts,
                   detection, full_results, result_file, timestamp, dfault>>
    /\ UNCHANGED <<loaderVars, threadVars, yoloVars, readerVars, pureVars>>

\* The detection stage of analyze_image and the building of the report.
Detect(env) ==
    /\ apc = "detect"
    /\ LET a == aargs[1]
           real == ~a.mock /\ YOLO_AVAILABLE
           \* yolo_model = YOLOModel(model_path=model_path): a fresh object
           det == YoloDetect(FALSE, env, a.image.stem).out
           model_used == IF a.mock THEN "mock"
                         ELSE IF YOLO_AVAILABLE THEN "yolov8"
                         ELSE "mock (YOLO unavailable)"
       IN /\ dfault' = IF real THEN DetectFault(FALSE, env) ELSE "none"
          /\ IF real /\ det = None
             THEN \* the exception leaves detect
                  /\ AnalyzeFails(Exc("Exception", env.msg), "detect")
                  /\ UNCHANGED <<detection, full_results>>
             ELSE LET analysis == IF real THEN BuildAnalysisResults(det[1])
                                  ELSE GenerateMockAnalysisResults(a.image.stem, image_details[1])
                  IN /\ detection' = IF real THEN det ELSE None
                     /\ full_results' = Some(FullResults(a, image_details[1], analysis,
                                                         model_used, now))
                     /\ apc' = "persist"
                     /\ UNCHANGED <<aresult, afault>>
    /\ UNCHANGED <<PIL_AVAILABLE, YOLO_AVAILABLE, now, fs_reports, fs_artifacts, aargs,
                   image_details, result_file, timestamp, written, runs>>
    /\ UNCHANGED <<loaderVars, threadVars, yoloVars, readerVars, pureVars>>

\* A pipeline that would leave the writing of the report until after the
\* rendering.
Persist_Deferred(ok) ==
    /\ apc = "persist"
    /\ apc' = "render"
    /\ result_file' = Some(ReportPath(<<aargs[1].image.stem>>, Strftime(now)))
    /\ timestamp' = Some(Strftime(now))
    /\ UNCHANGED <<PIL_AVAILABLE, YOLO_AVAILABLE, now, fs_reports, fs_artifacts, aargs,
                   image_details, detection, full_results, aresult, afault, dfault,
                   written, runs>>
    /\ UNCHANGED <<loaderVars, threadVars, yoloVars, readerVars, pureVars>>

\* The writing of the report file, and the return when no visual is asked for.
Persist(ok) ==
    /\ apc = "persist"
    /\ LET a == aargs[1]
           path == ReportPath(<<a.image.stem>>, Strftime(now))
       IN IF ~ok
          THEN /\ AnalyzeFails(Exc("OSError", <<"cannot write the report">>), "write")
               /\ UNCHANGED <<fs_reports, result_file, timestamp, written>>
          ELSE /\ fs_reports' = Put(fs_reports, path, JsonDump(full_results[1]))
               /\ result_file' = Some(path)
               /\ timestamp' = Some(Strftime(now))
               /\ written' = written \cup {path}
               /\ IF a.generate_visual
                  THEN /\ apc' = "render"
                       /\ UNCHANGED <<aresult, afault>>
                  ELSE /\ apc' = "done"
                       /\ aresult' = Some(ResultOnSuccess(full_results[1], path, None))
                       /\ UNCHANGED afault
    /\ UNCHANGED <<PIL_AVAILABLE, YOLO_AVAILABLE, now, fs_artifacts, aargs,
                   image_details, detection, full_results, dfault, runs>>
    /\ UNCHANGED <<loaderVars, threadVars, yoloVars, readerVars, pureVars>>

\* generate_visual_feedback and the return of analyze_image.
Render(ok, msg) ==
    /\ apc = "render"
    /\ LET a == aargs[1]
           out == FeedbackPath(<<a.image.stem>>, timestamp[1])
           g == GenerateVisualFeedback(full_results[1], out, [ok |-> ok, msg |-> msg])
       IN IF g.raised # None
          THEN /\ AnalyzeFails(g.raised[1], "render")
               /\ UNCHANGED <<fs_artifacts, written>>
          ELSE /\ fs_artifacts' = fs_artifacts \cup {g.calls[Len(g.calls)].path}
               /\ written' = written \cup {g.calls[Len(g.calls)].path}
               /\ apc' = "done"
               /\ aresult' = Some(ResultOnSuccess(full_results[1], result_file[1],
                                                  g.returned))
               /\ UNCHANGED afault
    /\ UNCHANGED <<PIL_AVAILABLE, YOLO_AVAILABLE, now, fs_reports, aargs, image_details,
                   detection, full_results, result_file, timestamp, dfault, runs>>
    /\ UNCHANGED <<loaderVars, threadVars, yoloVars, readerVars, pureVars>>

\* The caller has taken the result of analyze_image.
AnalyzeReturn ==
    /\ apc = "done"
    /\ apc' = "idle"
    /\ aargs' = None
    /\ image_details' = None
    /\ detection' = None
    /\ full_results' = None
    /\ result_file' = None
    /\ timestamp' = None
    /\ aresult' = None
    /\ afault' = "none"
    /\ dfault' = "none"
    /\ written' = {}
    /\ UNCHANGED <<PIL_AVAILABLE, YOLO_AVAILABLE, now, fs_reports, fs_artifacts, runs>>
    /\ UNCHANGED <<loaderVars, threadVars, yoloVars, readerVars, pureVars>>

\* A second goes by.
TickNow ==
    /\ now < MaxNow
    /\ now' = now + 1
    /\ UNCHANGED <<PIL_AVAILABLE, YOLO_AVAILABLE, fs_reports, fs_artifacts, apc, aargs,
                   image_details, detection, full_results, result_file, timestamp,
                   aresult,
                   afault, dfault, written, runs>>
    /\ UNCHANGED <<loaderVars, threadVars, yoloVars, readerVars, pureVars>>

\* YOLOModel.detect(image_path) on a model object the program keeps.
YoloDetectCall(env) ==
    /\ apc = "idle"
    /\ runs = 0
    /\ LET d == YoloDetect(yolo_is_loaded, env, "shot")
       IN /\ yolo_out' = d.out
          /\ yolo_is_loaded' = d.is_loaded
          /\ yolo_fault' = DetectFault(yolo_is_loaded, env)
          /\ yolo_events' = DetectEvents(yolo_is_loaded, env)
    /\ UNCHANGED <<loaderVars, threadVars, analysisVars, readerVars, pureVars>>

\* detect of the fallback class, which stands in when the backend module is
\* not there.
FallbackDetectCall ==
    /\ apc = "idle"
    /\ runs = 0
    /\ ~YOLO_AVAILABLE
    /\ ~yolo_is_loaded
    /\ yolo_out' = Some(FallbackDetect)
    /\ yolo_fault' = "load"
    /\ yolo_events' = <<>>
    /\ UNCHANGED yolo_is_loaded
    /\ UNCHANGED <<loaderVars, threadVars, analysisVars, readerVars, pureVars>>

NextAnalyze ==
    \/ \E img \in Images, gen \in BOOLEAN, mock \in BOOLEAN, dirOk \in BOOLEAN :
          AnalyzeImage(img, gen, mock, dirOk)
    \/ \E env \in DetectEnvs : Detect(env)
    \/ \E ok \in BOOLEAN : Persist(ok)
    \/ \E ok \in BOOLEAN, msg \in ExcTexts : Render(ok, msg)
    \/ AnalyzeReturn
    \/ TickNow
    \/ \E env \in DetectEnvs : YoloDetectCall(env)
    \/ FallbackDetectCall

SpecAnalyze == InitAnalyze /\ [][NextAnalyze]_vars

\* ------------------------------------------------------------------------
\* The functions of image_analysis.py called on their own
\* ------------------------------------------------------------------------

MaxWidth == 240
MaxLevel == 100
MaxObjs == 3
MaxStem == 2
MaxDrawn == 2
MaxSize == 30
MaxSecond == 10

\* Heights of the images whose ratio is named: thirds, ninths and hundredths
\* give 4/3, 16/9, 7/9 and every ratio of two decimals.
Heights == {3, 9, 100}

AspectInputs ==
    {[fn |-> "aspect", width |-> w, height |-> h] : w \in 1..MaxWidth, h \in Heights}

\* color_info as get_image_details leaves it: with brightness_percent and
\* color_variance (in whole units), or without the two, which are added
\* together and only for RGB images when numpy is there.
ColorInfos ==
    {EmptyDict} \cup
    {[brightness_percent |-> b, color_variance |-> v] : b \in 0..MaxLevel, v \in 0..MaxLevel}

ColorInputs == {[fn |-> "color", color_info |-> ci] : ci \in ColorInfos}

\* What a backend can return to build_analysis_results: up to MaxObjs boxes,
\* labels repeating; or an error dict; or a dict without "objects".
Boxes == {[label |-> l, confidence |-> c] : l \in {"person", "dog"}, c \in {90, 50}}

Detections ==
    {[objects |-> objs, model |-> "yolov8"] : objs \in SeqsUpTo(Boxes, MaxObjs)}
    \cup {[error |-> MsgNotLoaded, objects |-> <<>>], [error |-> MsgNotLoaded]}

BuildInputs == {[fn |-> "build", detection |-> d] : d \in Detections}

\* Image sizes and paths given to the mock provider; 90 is a size at which
\* int(height * 0.7) falls one short.
MockSizes == {90, 100, 640}

MockInputs ==
    {[fn |-> "mock", image_path |-> p, width |-> w, height |-> h] :
        p \in {"shot", "icon"}, w \in MockSizes, h \in MockSizes}

\* Stems of image files, as the pieces of text they are made of (pieces that
\* the file names themselves contain among them), and the second of the
\* minute at which the names are made.
StemPieces == {"shot", "_", "feedback"}

Stems == SeqsUpTo(StemPieces, MaxStem) \ {<<>>}

PathInputs ==
    {[fn |-> "paths", stem |-> st, second |-> t] : st \in Stems, t \in 0..MaxSecond}

\* Reports handed to generate_visual_feedback: with up to MaxDrawn objects
\* and up to MaxDrawn OCR regions, marked detected or not; with an analysis
\* that lacks "objects", "ocr" or the "detected" mark; with no analysis block
\* (as in test_generate_visual_feedback_simple); with no image details.
DrawnObjects ==
    {[label |-> "window", confidence |-> 92], [label |-> "icon", confidence |-> 85]}

DrawnRegions ==
    {[text |-> <<"sample text">>, confidence |-> 78],
     [text |-> <<"mock data">>, confidence |-> 65]}

DrawnDetails == [aspect_ratio_name |-> GetAspectRatioName(100, 100)]

VisualReports ==
    {[image_details |-> DrawnDetails,
      analysis |-> [objects |-> objs, ocr |-> [detected |-> d, regions |-> regs]]] :
        objs \in SeqsUpTo(DrawnObjects, MaxDrawn), d \in BOOLEAN,
        regs \in SeqsUpTo(DrawnRegions, MaxDrawn)}
    \cup {[image_details |-> DrawnDetails,
           analysis |-> [objects |-> objs, ocr |-> [regions |-> regs]]] :
             objs \in SeqsUpTo(DrawnObjects, 1), regs \in SeqsUpTo(DrawnRegions, 1)}
    \cup {[image_details |-> DrawnDetails, analysis |-> [objects |-> objs]] :
             objs \in SeqsUpTo(DrawnObjects, 1)}
    \cup {[image_details |-> DrawnDetails,
           analysis |-> [ocr |-> [detected |-> TRUE, regions |-> regs]]] :
             regs \in SeqsUpTo(DrawnRegions, 1)}
    \cup {[image_details |-> DrawnDetails, analysis |-> EmptyDict],
          [image_details |-> DrawnDetails, elements |-> <<"text", "image">>],
          [elements |-> <<"text", "image">>]}

VisualInputs ==
    {[fn |-> "visual", analysis_results |-> r, output_file |-> f, ok |-> ok] :
        r \in VisualReports,
        f \in {<<"output">>, FeedbackPath(<<"shot">>, Strftime(0))},
        ok \in BOOLEAN}

\* The calls that are made twice, to compare what they return.
TwiceInputs == MockInputs \cup PathInputs

\* take_screenshot(output_dir, prefix): the path of the file saved, or None
\* when anything in it raises.
TakeScreenshot(env) ==
    IF env.shot = "ok" THEN Some(<<"screenshots", "debug", "new">>) ELSE None

\* A handler that would catch only the errors of the file system.
ScreenshotCatches_OnlyOSError(type) == type = "OSError"

\* `except Exception as e:` of analyze_screenshot catches every exception
\* class raised inside it.
ScreenshotCatches(type) == type \in {"OSError", "Exception"}

\* The return of analyze_screenshot from its handler, or the exception that
\* leaves it.
ScreenshotFails(exc, path) ==
    IF ScreenshotCatches(exc.type)
    THEN [raised |-> None,
          result |-> Some([success |-> FALSE, error |-> exc.msg, screenshot |-> path,
                           time_taken |-> "elapsed"])]
    ELSE [raised |-> Some(exc), result |-> None]

\* analyze_screenshot(screenshot_path, ..., take_new_screenshot): the
\* exception that leaves it (None when it returns) and the dict it returns.
\* env tells what take_screenshot, os.makedirs, the YOLO backend, cv2.imread
\* and visualize_annotations / cv2.imwrite do.
AnalyzeScreenshot(screenshot_path, take_new_screenshot, env) ==
    LET retake == screenshot_path = None \/ take_new_screenshot
        taken == IF retake THEN TakeScreenshot(env) ELSE screenshot_path
        path == taken[1]
        det == YoloDetect(TRUE, env.detect, path).out
    IN IF taken = None
       THEN [raised |-> None,
             result |-> Some([success |-> FALSE,
                              error |-> <<"failed to take the screenshot">>,
                              time_taken |-> "elapsed"])]
       ELSE IF env.makedirs # "ok"
       THEN ScreenshotFails(Exc("OSError", <<"cannot create directory">>), path)
       ELSE IF ~YoloLoad(env.detect)
       THEN [raised |-> None,
             result |-> Some([success |-> FALSE,
                              error |-> <<"failed to load the YOLO model">>,
                              screenshot |-> path,
                              time_taken |-> "elapsed"])]
       ELSE IF det = None
       \* the exception leaves detect
       THEN ScreenshotFails(Exc("Exception", env.detect.msg), path)
       ELSE IF "error" \in DOMAIN det[1]
       THEN [raised |-> None,
             result |-> Some([success |-> FALSE,
                              error |-> <<"error during object detection: ">>
                                        \o det[1].error,
                              screenshot |-> path,
                              time_taken |-> "elapsed"])]
       ELSE IF env.imread # "ok"
       THEN [raised |-> None,
             result |-> Some([success |-> FALSE,
                              error |-> <<"failed to read the image">>,
                              time_taken |-> "elapsed"])]
       ELSE IF det[1].objects # <<>>
       THEN IF env.draw # "ok"
            THEN ScreenshotFails(Exc("Exception", env.detect.msg), path)
            ELSE [raised |-> None,
                  result |-> Some([success |-> TRUE,
                                   screenshot |-> path,
                                   visual_feedback |-> Some(<<"debug_output", path[Len(path)], "-visual.png">>),
                                   detection_results |-> det[1],
                                   objects_count |-> Len(det[1].objects),
                                   time_taken |-> "elapsed"])]
       ELSE [raised |-> None,
             result |-> Some([success |-> TRUE,
                              screenshot |-> path,
                              visual_feedback |-> None,
                              detection_results |-> det[1],
                              objects_count |-> 0,
                              time_taken |-> "elapsed"])]

\* The arguments of analyze_screenshot and what its environment does.
ScreenshotEnvs ==
    [shot : {"ok", "fail"}, makedirs : {"ok", "exc"}, detect : DetectEnvs,
     imread : {"ok", "none"}, draw : {"ok", "exc"}]

ScreenshotInputs ==
    {[fn |-> "screenshot", screenshot_path |-> sp, take_new_screenshot |-> tn, env |-> e] :
        sp \in {None, Some(<<"screenshots", "debug", "old">>)}, tn \in BOOLEAN,
        e \in ScreenshotEnvs}

\* Every small image size, for the boxes of the mock provider.
MockSizeInputs ==
    {[fn |-> "mock", image_path |-> "shot", width |-> w, height |-> h] :
        w \in 1..MaxSize, h \in 1..MaxSize}

PureInputs ==
    AspectInputs \cup ColorInputs \cup BuildInputs \cup MockInputs \cup PathInputs
    \cup VisualInputs \cup MockSizeInputs \cup ScreenshotInputs

InitPure ==
    /\ TF_AVAILABLE = TRUE
    /\ TESSERACT_AVAILABLE = TRUE
    /\ PIL_AVAILABLE = TRUE
    /\ YOLO_AVAILABLE = TRUE
    /\ LoaderStart
    /\ AnalysisStart
    /\ fin \in PureInputs

\* get_aspect_ratio_name(width / height)
CallGetAspectRatioName ==
    /\ fin.fn = "aspect" /\ fout = None
    /\ fout' = Some(GetAspectRatioName(fin.width, fin.height))
    /\ UNCHANGED <<fin, fprev>>
    /\ UNCHANGED <<loaderVars, threadVars, analysisVars, yoloVars, readerVars>>

\* The color_analysis entry of the debug block, computed from color_info.
CallColorAnalysis ==
    /\ fin.fn = "color" /\ fout = None
    /\ fout' = Some(ColorAnalysis(fin.color_info))
    /\ UNCHANGED <<fin, fprev>>
    /\ UNCHANGED <<loaderVars, threadVars, analysisVars, yoloVars, readerVars>>

\* build_analysis_results(image_path, image_details, detection_results)
CallBuildAnalysisResults ==
    /\ fin.fn = "build" /\ fout = None
    /\ fout' = Some(BuildAnalysisResults(fin.detection))
    /\ UNCHANGED <<fin, fprev>>
    /\ UNCHANGED <<loaderVars, threadVars, analysisVars, yoloVars, readerVars>>

\* generate_mock_analysis_results(image_path, image_details)
CallGenerateMockAnalysisResults ==
    /\ fin.fn = "mock" /\ fout = None
    /\ fout' = Some(GenerateMockAnalysisResults(
                        fin.image_path, [width |-> fin.width, height |-> fin.height]))
    /\ UNCHANGED <<fin, fprev>>
    /\ UNCHANGED <<loaderVars, threadVars, analysisVars, yoloVars, readerVars>>

\* The names analyze_image gives to the two files of a run: one timestamp
\* is taken and both names are made from it and from the stem.
CallOutputPaths ==
    /\ fin.fn = "paths" /\ fout = None
    /\ LET stamp == Strftime(fin.second)
       IN fout' = Some([result_file |-> ReportPath(fin.stem, stamp),
                        visual_feedback |-> FeedbackPath(fin.stem, stamp)])
    /\ UNCHANGED <<fin, fprev>>
    /\ UNCHANGED <<loaderVars, threadVars, analysisVars, yoloVars, readerVars>>

\* generate_visual_feedback(image_path, analysis_results, output_file)
CallGenerateVisualFeedback ==
    /\ fin.fn = "visual" /\ fout = None
    /\ fout' = Some(GenerateVisualFeedback(fin.analysis_results, fin.output_file,
                                           [ok |-> fin.ok, msg |-> <<"boom">>]))
    /\ UNCHANGED <<fin, fprev>>
    /\ UNCHANGED <<loaderVars, threadVars, analysisVars, yoloVars, readerVars>>

\* analyze_screenshot(screenshot_path, take_new_screenshot=...)
CallAnalyzeScreenshot ==
    /\ fin.fn = "screenshot" /\ fout = None
    /\ fout' = Some(AnalyzeScreenshot(fin.screenshot_path, fin.take_new_screenshot,
                                      fin.env))
    /\ UNCHANGED <<fin, fprev>>
    /\ UNCHANGED <<loaderVars, threadVars, analysisVars, yoloVars, readerVars>>

\* A second call of the same function, after the first has returned: the
\* first call is kept for comparison.
CallAgain(input) ==
    /\ fin \in TwiceInputs /\ input.fn = fin.fn /\ fout # None /\ fprev = None
    /\ fprev' = Some([input |-> fin, output |-> fout[1]])
    /\ fin' = input
    /\ fout' = None
    /\ UNCHANGED <<loaderVars, threadVars, analysisVars, yoloVars, readerVars>>

NextPure ==
    \/ CallGetAspectRatioName
    \/ CallColorAnalysis
    \/ CallBuildAnalysisResults
    \/ CallGenerateMockAnalysisResults
    \/ CallOutputPaths
    \/ CallGenerateVisualFeedback
    \/ CallAnalyzeScreenshot
    \/ \E input \in TwiceInputs : CallAgain(input)

SpecPure == InitPure /\ [][NextPure]_vars

----------------------------------------------------------------------------
\* The report of the current run, as it is on disk.
PersistedReport == JsonLoad(fs_reports[result_file[1]])

RealRun == aargs # None /\ ~aargs[1].mock /\ YOLO_AVAILABLE

\* C3: in real mode, when detection fails, analyze_image still persists a
\* report and returns success = true, and that report has an empty objects
\* list and records the text of the detection error.
C3_DetectionErrorRecorded ==
    (apc = "done" /\ RealRun /\ dfault # "none" /\ afault = "none")
        => /\ aresult[1].success
           /\ result_file # None
           /\ result_file[1] \in DOMAIN fs_reports
           /\ PersistedReport.analysis.objects = <<>>
           /\ "error" \in DOMAIN PersistedReport.analysis
           /\ PersistedReport.analysis.error = detection[1].error

\* C4: whenever the real backend fails (the load that detect triggers fails,
\* or an exception occurs during inference or while the boxes are mapped),
\* YOLOModel.detect returns a dict with objects = [] and an error text, and
\* no exception leaves it.
FailureReturned(out) ==
    /\ out # None
    /\ "error" \in DOMAIN out[1]
    /\ out[1].objects = <<>>

C4_DetectFailureReturned ==
    /\ yolo_fault # "none" => FailureReturned(yolo_out)
    /\ (apc \in {"persist", "render", "done"} /\ dfault # "none")
           => FailureReturned(detection)

\* detect has failed while mapping the second box, and has returned.
C4_Witness ==
    /\ yolo_fault = "map"
    /\ yolo_out # None
    /\ yolo_is_loaded

\* C5: analyze_image never raises to its caller; when get_image_details
\* raises ImageAnalysisError or the report cannot be written it returns
\* {success: false, error: text}, and in the input-error case it has written
\* no report file and no artifact file.
FailureResult(r) ==
    /\ r # None
    /\ DOMAIN r[1] = {"error", "success"}
    /\ r[1].success = FALSE

C6_RenderKeepsReport ==
    [][/\ apc = "render" =>
            /\ result_file # None
            /\ result_file[1] \in DOMAIN fs_reports
            /\ PersistedReport = full_results[1]
       /\ (apc = "render" /\ afault' = "render") =>
            /\ fs_reports' = fs_reports
            /\ aresult'[1].success = FALSE]_vars

\* Rendering has failed and the report is on disk.
C6_Witness ==
    /\ apc = "done"
    /\ afault = "render"
    /\ result_file[1] \in DOMAIN fs_reports
    /\ PersistedReport = full_results[1]

\* C13: YOLOModel.detect on a model that is not loaded calls load first;
\* the backend is invoked for inference only with is_loaded true; and when
\* the load that detect called fails, no inference is attempted.
InferenceCalls(evs) == SelectSeq(evs, LAMBDA e : e.ev = "infer")

C13_LoadBeforeInference ==
    [][(yoloVars' # yoloVars /\ yolo_out' # Some(FallbackDetect))
          => /\ ~yolo_is_loaded
                   => /\ yolo_events' # <<>>
                      /\ yolo_events'[1] = [ev |-> "load", is_loaded |-> FALSE]
             /\ yolo_is_loaded
                   => yolo_events' = <<[ev |-> "infer", is_loaded |-> TRUE]>>
             /\ \A i \in 1..Len(yolo_events') :
                   yolo_events'[i].ev = "infer"
                       => /\ i = Len(yolo_events')
                          /\ yolo_events'[i].is_loaded
                          /\ yolo_is_loaded'
             /\ (~yolo_is_loaded /\ ~yolo_is_loaded')
                   => /\ InferenceCalls(yolo_events') = <<>>
                      /\ yolo_fault' = "load"
      ]_vars

\* A detect on an unloaded model has loaded it and then run the inference.
C13_Witness ==
    /\ yolo_out # None
    /\ yolo_events = <<[ev |-> "load", is_loaded |-> FALSE],
                       [ev |-> "infer", is_loaded |-> TRUE]>>
    /\ yolo_is_loaded

\* ------------------------------------------------------------------------
\* Claims about the contents of the reports
\* ------------------------------------------------------------------------

\* The confidence c = num / den is the arithmetic mean of the confidences of
\* objs, which are in hundredths, and 0 when there are none.
IsMeanOf(c, objs) ==
    IF objs = <<>> THEN c.num = 0
    ELSE c.num * 100 * Len(objs) = SumConfidence(objs) * c.den

\* C14: in every report the pipeline has written, in mock mode as in real
\* mode, analysis.confidence is the arithmetic mean of the confidences of
\* analysis.objects, and 0 when there are no objects.
C14_ConfidenceIsMean ==
    \A path \in DOMAIN fs_reports :
        IsMeanOf(fs_reports[path].analysis.confidence,
                 fs_reports[path].analysis.objects)

\* C15: in every report the pipeline has written, in mock mode as in real
\* mode, the tags are exactly the distinct labels of analysis.objects (for a
\* mock run: window, icon and text).
C15_TagsAreLabels ==
    \A path \in DOMAIN fs_reports :
        LET analysis == fs_reports[path].analysis
        IN analysis.tags = {analysis.objects[i].label : i \in 1..Len(analysis.objects)}

\* C17: when analyze_image in mock mode has returned a success, with or
\* without a visual artifact, every top-level key of what the mock provider
\* returned for the image is a top-level key of result["results"].
C17_ProviderKeysAtTopLevel ==
    (apc = "done" /\ aargs[1].mock /\ afault = "none")
        => DOMAIN GenerateMockAnalysisResults(aargs[1].image.stem, image_details[1])
               \subseteq DOMAIN aresult[1].results

\* ------------------------------------------------------------------------
\* Claims about the functions called on their own
\* ------------------------------------------------------------------------

MockReturned == fin.fn = "mock" /\ fout # None

\* C16: two calls of the mock provider with the same width and height,
\* whatever the image path of each, return the same result; and every result
\* has exactly the three objects window, icon, text, in that order, and an
\* OCR block with two regions.
C16_MockPureInDimensions ==
    /\ (MockReturned /\ fprev # None
           /\ fprev[1].input.width = fin.width
           /\ fprev[1].input.height = fin.height)
          => fout[1] = fprev[1].output
    /\ MockReturned
          => /\ [i \in 1..Len(fout[1].objects) |-> fout[1].objects[i].label]
                    = <<"window", "icon", "text">>
             /\ Len(fout[1].ocr.regions) = 2

\* The provider has returned twice for a 640x90 image, under two paths.
C16_Witness ==
    /\ MockReturned /\ fprev # None
    /\ fin.width = 640 /\ fin.height = 90
    /\ fprev[1].input.width = 640 /\ fprev[1].input.height = 90
    /\ fprev[1].input.image_path # fin.image_path
    /\ fout[1].objects[1].bbox.height = 62

\* The objects handed to build_analysis_results.
BuildObjects ==
    IF "objects" \in DOMAIN fin.detection THEN fin.detection.objects ELSE <<>>

\* The positions at which a label occurs for the first time.
FirstPositions(objs) ==
    {k \in 1..Len(objs) : \A j \in 1..(k - 1) : objs[j].label # objs[k].label}

\* The i-th of these positions.
NthFirstPosition(objs, i) ==
    CHOOSE k \in FirstPositions(objs) :
        Cardinality({j \in FirstPositions(objs) : j < k}) = i - 1

RECURSIVE SumCounts(_)
SumCounts(parts) ==
    IF parts = <<>> THEN 0 ELSE Head(parts).count + SumCounts(Tail(parts))

\* C18: the description that build_analysis_results returns lists every
\* distinct label once, in order of first occurrence, each with the number
\* of objects that carry it, the counts adding up to the number of objects;
\* with no objects it is the fixed "no objects detected" phrase.
C18_DescriptionCounts ==
    (fin.fn = "build" /\ fout # None)
        => LET objs == BuildObjects
               d == fout[1].description
           IN IF objs = <<>>
              THEN d = [phrase |-> "no objects detected", parts |-> <<>>]
              ELSE /\ d.phrase = "contains"
                   /\ Len(d.parts) = Cardinality(FirstPositions(objs))
                   /\ \A i \in 1..Len(d.parts) :
                          /\ d.parts[i].label = objs[NthFirstPosition(objs, i)].label
                          /\ d.parts[i].count =
                                 Cardinality({k \in 1..Len(objs) :
                                                 objs[k].label = d.parts[i].label})
                   /\ SumCounts(d.parts) = Len(objs)

\* A description has been built for three objects of which the first and the
\* third carry one label and the second another.
C18_Witness ==
    /\ fin.fn = "build" /\ fout # None
    /\ Len(BuildObjects) = 3
    /\ BuildObjects[1].label = "dog"
    /\ BuildObjects[2].label = "person"
    /\ BuildObjects[3].label = "dog"
    /\ fout[1].description.parts
           = <<[label |-> "dog", count |-> 2], [label |-> "person", count |-> 1]>>

\* C19: brightness percent b is classified bright when b >= 70, medium when
\* 30 <= b < 70 and dark when b < 30; colour variance v is classified high
\* when v >= 80, medium when 40 <= v < 80 and low when v < 40.
C19_BucketsIncludeBoundary ==
    (fin.fn = "color" /\ fout # None /\ fin.color_info # EmptyDict)
        => LET b == fin.color_info.brightness_percent
               v == fin.color_info.color_variance
           IN /\ fout[1].estimated_brightness =
                     (IF b >= 70 THEN "bright" ELSE IF b >= 30 THEN "medium" ELSE "dark")
              /\ fout[1].color_variance =
                     (IF v >= 80 THEN "high" ELSE IF v >= 40 THEN "medium" ELSE "low")

\* The rows of the table whose ratio c / 100 the ratio width / height lies
\* within 0.03 of: |width / height - c / 100| <= 3 / 100.
NearRows(width, height) ==
    {i \in 1..Len(AspectTable) :
        LET d == 100 * width - AspectTable[i].c * height
        IN (IF d >= 0 THEN d ELSE -d) <= 3 * height}

\* The nearest of these rows.
NearestRow(width, height) ==
    CHOOSE i \in NearRows(width, height) :
        \A j \in NearRows(width, height) :
            LET di == 100 * width - AspectTable[i].c * height
                dj == 100 * width - AspectTable[j].c * height
            IN (IF di >= 0 THEN di ELSE -di) <= (IF dj >= 0 THEN dj ELSE -dj)

\* C20: for every ratio width / height, get_aspect_ratio_name returns the
\* name of the nearest canonical ratio when the ratio lies within 0.03 of
\* it, and otherwise the ratio rounded to two decimals followed by ":1".
C20_NearestCanonicalName ==
    (fin.fn = "aspect" /\ fout # None)
        => IF NearRows(fin.width, fin.height) # {}
           THEN fout[1] = [kind |-> "named",
                           name |-> AspectTable[NearestRow(fin.width, fin.height)].name]
           ELSE fout[1] = [kind |-> "custom",
                           hundredths |-> Round2(fin.width, fin.height)]

PathsReturned == fin.fn = "paths" /\ fout # None

\* The pieces of a file name before its extension that hold the timestamp.
StampIn(path) == SubSeq(path, Len(path) - 3, Len(path) - 1)

\* C21: the report name and the artifact name of a run embed the image stem
\* and one and the same second-granularity timestamp; two runs into one
\* output directory whose (stem, second) pairs differ get different report
\* names and different artifact names; and a report name is never an
\* artifact name.
C21_PathsDistinct ==
    /\ PathsReturned
          => /\ StampIn(fout[1].result_file) = Strftime(fin.second)
             /\ StampIn(fout[1].visual_feedback) = Strftime(fin.second)
             /\ SubSeq(fout[1].result_file, 3, 2 + Len(fin.stem)) = fin.stem
             /\ SubSeq(fout[1].visual_feedback, 1, Len(fin.stem)) = fin.stem
             /\ fout[1].result_file # fout[1].visual_feedback
    /\ (PathsReturned /\ fprev # None)
          => /\ fout[1].result_file # fprev[1].output.visual_feedback
             /\ fout[1].visual_feedback # fprev[1].output.result_file
             /\ (fin.stem # fprev[1].input.stem \/ fin.second # fprev[1].input.second)
                    => /\ fout[1].result_file # fprev[1].output.result_file
                       /\ fout[1].visual_feedback # fprev[1].output.visual_feedback

\* Two runs in the same second, for the images "shot" and "shot_",
\* have got their names.
C21_Witness ==
    /\ PathsReturned /\ fprev # None
    /\ fin.second = 10 /\ fprev[1].input.second = 10
    /\ fin.stem = <<"shot">>
    /\ fprev[1].input.stem = <<"shot", "_">>
    /\ fout[1].result_file = <<"analysis", "_", "shot", "_", "YYYYMMDD_HHMM", "1", "0", ".json">>

\* C22: the report that analyze_image hands back on success, with or
\* without the rendering step, equals field for field what deserializing the
\* persisted document gives.
C22_ReturnedEqualsPersisted ==
    (apc = "done" /\ afault = "none")
        => /\ aresult[1].result_file \in DOMAIN fs_reports
           /\ JsonLoad(fs_reports[aresult[1].result_file]) = aresult[1].results

\* A run in mock mode has rendered its artifact and returned, a second after
\* it wrote the report.
C22_Witness ==
    /\ apc = "done" /\ afault = "none"
    /\ aargs[1].mock
    /\ aresult[1].visual_feedback # None
    /\ now = 1
    /\ timestamp = Some(Strftime(0))
    /\ aresult[1].results.debug_info.model_used = None

\* generate_visual_feedback has returned (it has not raised).
VisualReturned == fin.fn = "visual" /\ fout # None /\ fout[1].raised = None

\* The stage a call on the image belongs to, in the order of the stages.
StageOf(c) ==
    CASE c.op = "object" -> 1
      [] c.op = "region" -> 2
      [] c.op = "info" -> 3
      [] c.op = "summary" -> 4
      [] c.op = "save" -> 5

\* The report says that text was detected.
MarkedDetected(analysis_results) ==
    /\ "analysis" \in DOMAIN analysis_results
    /\ "ocr" \in DOMAIN analysis_results.analysis
    /\ "detected" \in DOMAIN analysis_results.analysis.ocr
    /\ analysis_results.analysis.ocr.detected

\* C23: generate_visual_feedback draws the object boxes, then the OCR
\* regions, then the info panel, then the summary panel, and saves the
\* artifact after all of them, once; OCR regions are drawn only when the
\* OCR section of the report is marked detected.
C23_DrawOrder ==
    VisualReturned
        => LET calls == fout[1].calls
           IN /\ \A i, j \in 1..Len(calls) : i < j => StageOf(calls[i]) <= StageOf(calls[j])
              /\ calls[Len(calls)].op = "save"
              /\ \A i \in 1..(Len(calls) - 1) : calls[i].op # "save"
              /\ \E i \in 1..Len(calls) : calls[i].op = "info"
              /\ (\E i \in 1..Len(calls) : calls[i].op = "region")
                     => MarkedDetected(fin.analysis_results)

\* Two objects, two regions marked detected, and both panels have been
\* drawn, and the image saved.
C23_Witness ==
    /\ VisualReturned
    /\ [i \in 1..Len(fout[1].calls) |-> fout[1].calls[i].op]
           = <<"object", "object", "region", "region", "info", "summary", "save">>

\* C24: generate_visual_feedback returns exactly the output path it was
\* given, which is where it has saved; for a report without an analysis
\* block it draws the info panel only, before saving.
C24_ReturnsGivenPath ==
    VisualReturned
        => /\ fout[1].returned = Some(fin.output_file)
           /\ fout[1].calls[Len(fout[1].calls)].path = fin.output_file
           /\ "analysis" \notin DOMAIN fin.analysis_results
                  => [i \in 1..Len(fout[1].calls) |-> fout[1].calls[i].op]
                         = <<"info", "save">>

\* The function has returned for the report of the test, which has elements
\* and image details but no analysis block.
C24_Witness ==
    /\ VisualReturned
    /\ fin.analysis_results
           = [image_details |-> DrawnDetails, elements |-> <<"text", "image">>]
    /\ fin.output_file = <<"output">>
    /\ fout[1].returned = Some(<<"output">>)

\* ------------------------------------------------------------------------
\* Claims about the loader, continued
\* ------------------------------------------------------------------------

\* The worker threads of the GUI that are inside a load pass.
RunningPasses == {t \in Threads : pc[t] \notin {"idle", "done", "raised"}}

\* C25: in the GUI, asking for a model load (with the load button or through
\* the analyze action) while a load pass is running never makes two load
\* passes run at the same time over the shared ModelLoader.
C25_OnePassAtATime ==
    loader = "gui" => Cardinality(RunningPasses) <= 1

\* C26: after any sequence of loads on one ModelLoader, no load being in
\* progress, models holds an entry for a backend exactly when the status of
\* the backend says loaded, and a status that says loaded has no error.
C26_ModelsMatchStatus ==
    (\A t \in Threads : inflight[t] = {})
        => \A n \in Names :
               /\ (n \in models) <=> model_status[n].loaded
               /\ model_status[n].loaded => model_status[n].error = None

\* A step in which thread t takes up the load of backend n.
TakesUp(t, n) == dispatched'[t] = Append(dispatched[t], n)

\* C28: the load of a backend that the configuration disables returns
\* success = false with no error and no elapsed time, starts no
\* initialization, and leaves the status record and the stored model of the
\* backend as they were; and as long as the loader and its configuration
\* stay, the record and the stored model of a disabled backend never change.
C28_DisabledLoadRefused ==
    [][\A n \in Names :
          /\ \A t \in Threads :
                (TakesUp(t, n) /\ ~enabled[n])
                    => /\ n \in DOMAIN results'[t]
                       /\ results'[t][n].success = FALSE
                       /\ results'[t][n].error = None
                       /\ results'[t][n].elapsed = None
                       /\ inflight'[t] = inflight[t]
                       /\ model_status' = model_status
                       /\ models' = models
          /\ (~enabled[n] /\ enabled' = enabled /\ loader # "none" /\ loader' = loader
                 /\ model_status[n] = InitStatus[n] /\ n \notin models)
                => /\ model_status'[n] = InitStatus[n]
                   /\ n \notin models'
      ]_vars

\* A pass has been refused the load of cocossd, which is disabled, after it
\* loaded mobilenet; the record of cocossd is as the constructor left it.
C28_Witness ==
    /\ ~enabled["cocossd"]
    /\ "mobilenet" \in models
    /\ \E t \in Threads :
          /\ dispatched[t] = <<"mobilenet", "cocossd">>
          /\ "cocossd" \in DOMAIN results[t]
          /\ results[t]["cocossd"] = DisabledResult
    /\ model_status["cocossd"] = InitStatus["cocossd"]
    /\ "cocossd" \notin models

MockBoxes(result) ==
    {result.objects[i].bbox : i \in 1..Len(result.objects)}
    \cup {result.ocr.regions[i].bbox : i \in 1..Len(result.ocr.regions)}

\* C30: for every width W >= 1 and height H >= 1, the boxes of the three
\* mock objects and of the two mock OCR regions lie inside the image:
\* x >= 0, y >= 0, x + width <= W and y + height <= H.
C30_MockBoxesInside ==
    MockReturned
        => /\ Cardinality(MockBoxes(fout[1])) >= 1
           /\ \A b \in MockBoxes(fout[1]) :
                 /\ b.x >= 0 /\ b.y >= 0
                 /\ b.width >= 0 /\ b.height >= 0
                 /\ b.x + b.width <= fin.width
                 /\ b.y + b.height <= fin.height

\* The provider has returned for an image of 1 x 19 pixels: the window box
\* is 13 pixels high from y = 1.
C30_Witness ==
    /\ MockReturned
    /\ fin.width = 1 /\ fin.height = 19
    /\ fout[1].objects[1].bbox = [x |-> 0, y |-> 1, width |-> 0, height |-> 13]

ScreenshotDone == fin.fn = "screenshot" /\ fout # None

\* The screenshot was there or was taken.
ScreenshotObtained ==
    \/ fin.screenshot_path # None /\ ~fin.take_new_screenshot
    \/ fin.env.shot = "ok"

\* The result has a visual_feedback that is not None.
HasVisual(result) ==
    "visual_feedback" \in DOMAIN result /\ result.visual_feedback # None

\* C29: analyze_screenshot never raises; every result has the keys success
\* and time_taken; success is true only if the screenshot was obtained, the
\* model loaded and the detection returned no error; and visual_feedback is
\* not None exactly when success is true and at least one object was
\* detected.
C29_ScreenshotResult ==
    ScreenshotDone
        => /\ fout[1].raised = None
           /\ fout[1].result # None
           /\ {"success", "time_taken"} \subseteq DOMAIN fout[1].result[1]
           /\ fout[1].result[1].success
                 => /\ ScreenshotObtained
                    /\ fin.env.detect.load = "ok"
                    /\ fin.env.detect.infer = "ok"
                    /\ ~(fin.env.detect.mapfail \in 1..Len(fin.env.detect.boxes))
                    /\ "error" \notin DOMAIN fout[1].result[1].detection_results
           /\ HasVisual(fout[1].result[1])
                 <=> (fout[1].result[1].success
                        /\ fout[1].result[1].objects_count >= 1)

\* A new screenshot was taken although a path was given, two objects were
\* detected on it and the annotated image was saved.
C29_Witness ==
    /\ ScreenshotDone
    /\ fin.screenshot_path # None /\ fin.take_new_screenshot
    /\ fout[1].result[1].success
    /\ fout[1].result[1].objects_count = 2
    /\ fout[1].result[1].screenshot = <<"screenshots", "debug", "new">>
    /\ HasVisual(fout[1].result[1])

====
